---- MODULE Spec2Model ----
(***************************************************************************)
(* Mithran CAD engine: STEP -> STL conversion service.                     *)
(*                                                                         *)
(*   validators.py  FileValidator (extension, size, content signature)     *)
(*   services.py    StepReader / ShapeMesher / StlWriter / ConversionService*)
(*   main.py        StepConverter (legacy pipeline) and the HTTP endpoints *)
(*                                                                         *)
(*   config.py      AppConfig.from_env                                     *)
(*                                                                         *)
(* The specifications of this module:                                      *)
(*   SpecV     one run of FileValidator.validate_file                      *)
(*   SpecConv  one run of ConversionService.convert next to one run of     *)
(*             StepConverter.convert_step_to_stl on the same kernel        *)
(*             behaviour                                                   *)
(*   SpecSeq   conversions one after another on the same converters        *)
(*   SpecCfg   one run of AppConfig.from_env                               *)
(*   Spec      the HTTP service: requests on one asyncio event loop        *)
(* Text is modelled as a sequence of one-character strings, a file's       *)
(* content as a sequence of bytes.                                         *)
(***************************************************************************)
EXTENDS Integers, Sequences, FiniteSets, TLC

VARIABLES
    \* ---- FileValidator.validate_file (SpecV) ----
    vfilename,  \* the original filename argument
    vfile,      \* the file at file_path: [mode, content]
    vpc,        \* position inside validate_file
    vext,       \* file_ext once validate_file_extension has returned
    vtrace,     \* the checks run so far, in order
    vresult,    \* what validate_file returned or raised
    \* ---- one conversion, service and legacy side by side (SpecConv) ----
    ck,         \* how the geometry kernel behaves on this input
    cin,        \* whether the input STEP file exists
    spc,        \* ConversionService.convert: position in the pipeline
    sstages,    \* ConversionService.convert: stages invoked so far
    scalls,     \* ConversionService.convert: kernel calls made so far
    sexc,       \* ConversionService.convert: the exception it raised
    sout,       \* the file at stl_file_path of the service run
    lpc,        \* StepConverter.convert_step_to_stl: called or returned
    lres,       \* StepConverter.convert_step_to_stl: what it returned
    lout,       \* the file at stl_file_path of the legacy run
    out0,       \* the file at stl_file_path before the conversion
    scaught,    \* ConversionService.convert: the exception `e` its handler caught
    shape_mesher, \* the ShapeMesher of the service: its two deflection fields
    smeshargs,  \* the deflections the service run passed to BRepMesh_IncrementalMesh
    lconverter, \* the StepConverter of the legacy run: its two deflection fields
    run,        \* the number of the conversion the two converters are at
    first,      \* the inputs and the outcome of their first conversion
    \* ---- the HTTP service (Spec) ----
    pc,         \* per request: where its handler is
    req,        \* per request: endpoint, filename, extension, temp paths, upload
    fs,         \* the temporary directory: path -> file
    resp,       \* per request: the response (status, body)
    stages,     \* per request: the geometry stages started for it
    artifact,   \* per request: the STL the converter left for the response
    unlinkFailures, \* how many os.unlink calls have raised so far
    \* ---- AppConfig.from_env (SpecCfg) ----
    environ,    \* os.environ, as far as from_env reads it
    cfgpc,      \* position inside from_env
    cfglocals,  \* from_env's locals linear_deflection and angular_deflection
    config,     \* the AppConfig from_env returned, or NoConfig
    cfgerr      \* which setting the ValueError from_env raised is about

vvars == <<vfilename, vfile, vpc, vext, vtrace, vresult>>
cvars == <<ck, cin, spc, sstages, scalls, sexc, sout, lpc, lres, lout,
           out0, scaught, shape_mesher, smeshargs, lconverter, run, first>>

hvars == <<pc, req, fs, resp, stages, artifact, unlinkFailures>>

gvars == <<environ, cfgpc, cfglocals, config, cfgerr>>

vars == <<vvars, cvars, hvars, gvars>>

-----------------------------------------------------------------------------
(* Text helpers                                                            *)

Max(S) == CHOOSE x \in S : \A y \in S : y <= x

Min2(a, b) == IF a <= b THEN a ELSE b

\* str.lower() on the letters that occur in the model's filenames
LowerChar(c) ==
    CASE c = "S" -> "s"
      [] c = "T" -> "t"
      [] c = "E" -> "e"
      [] c = "P" -> "p"
      [] c = "I" -> "i"
      [] c = "G" -> "g"
      [] OTHER -> c

Lower(s) == [i \in 1..Len(s) |-> LowerChar(s[i])]

\* str.rfind(c), 1-based; 0 when c does not occur
RFind(s, c) ==
    LET I == {i \in 1..Len(s) : s[i] = c}
    IN  IF I = {} THEN 0 ELSE Max(I)

\* PurePath.name: the last component of the path
PathName(s) == SubSeq(s, RFind(s, "/") + 1, Len(s))

\* PurePath.suffix: from the last dot of the name, unless that dot is the
\* first or the last character of the name
PathSuffix(s) ==
    LET name == PathName(s)
        j    == RFind(name, ".")
    IN  IF 1 < j /\ j < Len(name) THEN SubSeq(name, j, Len(name)) ELSE <<>>

\* needle in haystack, for bytes
Contains(hay, needle) ==
    \E i \in 0..(Len(hay) - Len(needle)) :
        SubSeq(hay, i + 1, i + Len(needle)) = needle

-----------------------------------------------------------------------------
(* validators.py                                                           *)

STEP_MAGIC_NUMBERS ==
    { <<"I","S","O","-","1","0","3","0","3","-","2","1",";">>,
      <<"I","S","O","-","1","0","3","0","3","-","2","8",";">> }

ALLOWED_EXTENSIONS ==
    { <<".","s","t","e","p">>, <<".","s","t","p">>,
      <<".","i","g","e","s">>, <<".","i","g","s">> }

\* f.read(512)
HeaderBytes == 512

\* FileValidator.max_file_size_bytes of the validator under test
max_file_size_bytes == 540

\* Path(filename).suffix.lower()
FileExtNoLower(filename) == PathSuffix(filename)
FileExt(filename) == Lower(PathSuffix(filename))

\* header = f.read(512)
ReadWholeFile(content) == content
ReadHeader(content) == SubSeq(content, 1, Min2(HeaderBytes, Len(content)))

\* any(magic_num in header for magic_num in STEP_MAGIC_NUMBERS)
IsValidHeader(header) == \E m \in STEP_MAGIC_NUMBERS : Contains(header, m)

Raised(kind) == [status |-> "raised", kind |-> kind, ext |-> <<>>, size |-> 0]
Returned(ext, size) == [status |-> "returned", kind |-> "none", ext |-> ext, size |-> size]
NoResult == [status |-> "none", kind |-> "none", ext |-> <<>>, size |-> 0]

\* 1. file_ext = self.validate_file_extension(filename)
validate_file_extension ==
    /\ vpc = "extension"
    /\ vtrace' = Append(vtrace, "extension")
    /\ LET file_ext == FileExt(vfilename) IN
        IF file_ext \notin ALLOWED_EXTENSIONS
        THEN /\ vpc' = "raised"
             /\ vresult' = Raised("InvalidFileTypeError")
             /\ vext' = vext
        ELSE /\ vpc' = "size"
             /\ vext' = file_ext
             /\ vresult' = vresult
    /\ UNCHANGED <<vfilename, vfile, cvars, hvars, gvars>>

\* validate_file_size without its comparison against the cap
validate_file_size_unchecked ==
    /\ vpc = "size"
    /\ vtrace' = Append(vtrace, "size")
    /\ IF vfile.mode = "missing"
       THEN vpc' = "raised" /\ vresult' = Raised("OSError")
       ELSE vpc' = "magic" /\ vresult' = vresult
    /\ UNCHANGED <<vfilename, vfile, vext, cvars, hvars, gvars>>

\* validate_file_size with `>=` in place of `>`
validate_file_size_inclusive ==
    /\ vpc = "size"
    /\ vtrace' = Append(vtrace, "size")
    /\ IF vfile.mode = "missing"
       THEN vpc' = "raised" /\ vresult' = Raised("OSError")
       ELSE IF Len(vfile.content) >= max_file_size_bytes
       THEN vpc' = "raised" /\ vresult' = Raised("FileSizeExceededError")
       ELSE vpc' = "magic" /\ vresult' = vresult
    /\ UNCHANGED <<vfilename, vfile, vext, cvars, hvars, gvars>>

\* 2. self.validate_file_size(file_path); os.path.getsize raises OSError for
\*    a path that does not exist
validate_file_size ==
    /\ vpc = "size"
    /\ vtrace' = Append(vtrace, "size")
    /\ IF vfile.mode = "missing"
       THEN vpc' = "raised" /\ vresult' = Raised("OSError")
       ELSE IF Len(vfile.content) > max_file_size_bytes
       THEN vpc' = "raised" /\ vresult' = Raised("FileSizeExceededError")
       ELSE vpc' = "magic" /\ vresult' = vresult
    /\ UNCHANGED <<vfilename, vfile, vext, cvars, hvars, gvars>>

\* 3. self.validate_magic_number(file_path); IOError from open/read becomes
\*    InvalidFileTypeError
validate_magic_number ==
    /\ vpc = "magic"
    /\ vtrace' = Append(vtrace, "content")
    /\ IF vfile.mode = "unreadable"
       THEN vpc' = "raised" /\ vresult' = Raised("InvalidFileTypeError")
       ELSE IF ~IsValidHeader(ReadHeader(vfile.content))
       THEN vpc' = "raised" /\ vresult' = Raised("InvalidFileTypeError")
       ELSE vpc' = "return" /\ vresult' = vresult
    /\ UNCHANGED <<vfilename, vfile, vext, cvars, hvars, gvars>>

\* file_size = os.path.getsize(file_path); return file_ext, file_size
validate_file ==
    /\ vpc = "return"
    /\ vpc' = "returned"
    /\ vresult' = Returned(vext, Len(vfile.content))
    /\ UNCHANGED <<vfilename, vfile, vext, vtrace, cvars, hvars, gvars>>

\* ---- inputs of the validator ----
Pad(n) == [i \in 1..n |-> "x"]

Sig21 == <<"I","S","O","-","1","0","3","0","3","-","2","1",";">>
Sig28 == <<"I","S","O","-","1","0","3","0","3","-","2","8",";">>
\* near misses: another part number, lower case, the signature cut short
Sig22 == <<"I","S","O","-","1","0","3","0","3","-","2","2",";">>
SigLc == <<"i","s","o","-","1","0","3","0","3","-","2","1",";">>
SigCut == <<"I","S","O","-","1","0","3","0","3","-","2","1">>

SigLen == Len(Sig21)

\* offsets of a signature inside the file: at the start, inside the header,
\* ending exactly at byte 512, straddling byte 512, after the header
SigOffsets ==
    {0, 1, HeaderBytes - SigLen - 1, HeaderBytes - SigLen,
     HeaderBytes - SigLen + 1, HeaderBytes - 1, HeaderBytes}

FileContents ==
      {Pad(o) \o s \o Pad(2) : o \in SigOffsets, s \in {Sig21, Sig28}}
 \cup {Pad(o) \o s : o \in {0, HeaderBytes - SigLen}, s \in {Sig22, SigLc, SigCut}}
 \cup {Pad(0), Pad(20), Pad(max_file_size_bytes), Pad(max_file_size_bytes + 1),
       Sig21 \o Pad(max_file_size_bytes - SigLen),
       Sig21 \o Pad(max_file_size_bytes + 1 - SigLen),
       Pad(HeaderBytes) \o Sig21 \o Pad(max_file_size_bytes)}

Files ==
      [mode : {"ok"}, content : FileContents]
 \cup [mode : {"missing"}, content : {<<>>}]
 \cup [mode : {"unreadable"}, content : {Sig21 \o Pad(2), Pad(max_file_size_bytes + 1)}]

FileNames ==
    { <<"a",".","s","t","e","p">>,
      <<"a",".","S","T","E","P">>,
      <<"a",".","S","t","p">>,
      <<"a",".","s","t","p">>,
      <<"a",".","i","g","e","s">>,
      <<"a",".","I","G","S">>,
      <<"a",".","t","x","t">>,
      <<"a",".","s","t","l">>,
      <<"a">>,
      <<>>,
      <<".","s","t","e","p">>,
      <<"a",".","s","t","e","p",".">>,
      <<"a",".","s","t","e","p",".","t","x","t">>,
      <<"a",".","t","x","t",".","s","t","p">>,
      <<"d",".","s","t","p","/","a">>,
      <<"d",".","t","x","t","/","a",".","i","g","s">> }


-----------------------------------------------------------------------------
(* The geometry kernel (OpenCascade) and the file system, as far as the    *)
(* pipeline observes them                                                  *)

\* a file on disk: absent, empty, or non-empty; `by` is the run or request
\* that wrote it (0: left there by something earlier)
Absent == [st |-> "absent", by |-> 0]
Empty(by) == [st |-> "empty", by |-> by]
Full(by) == [st |-> "full", by |-> by]

\* os.path.exists
Exists(f) == f.st # "absent"

\* What the kernel does on one input:
\*   parse   STEPControl_Reader.ReadFile: its status, or it throws
\*   roots   TransferRoots: no roots, some roots, or it throws
\*   isNull  OneShape().IsNull()
\*   mesh    BRepMesh_IncrementalMesh + Perform: IsDone(), or it throws
\*   wthrows StlAPI_Writer.Write throws
\*   weffect what Write leaves at the output path: nothing, an empty file,
\*           a non-empty STL
Kernel ==
    [parse : {"RetDone", "RetFail", "throw"},
     roots : {"none", "some", "throw"},
     isNull : BOOLEAN,
     mesh : {"done", "notdone", "throw"},
     wthrows : BOOLEAN,
     weffect : {"none", "empty", "full"}]

\* StlAPI_Writer.Write(shape, stl_file_path) on the file system
KernelWrite(out, k, tag) ==
    CASE k.weffect = "none" -> out
      [] k.weffect = "empty" -> Empty(tag)
      [] k.weffect = "full" -> Full(tag)

\* A deflection is kept in units of 0.0001: 10 is 0.001, 1000 is 0.1,
\* 10000 is 1.0.  A mesher's settings are its two fields.
Deflections(linear_deflection, angular_deflection) ==
    [linear_deflection |-> linear_deflection,
     angular_deflection |-> angular_deflection]

\* the arguments a mesher is constructed with: the defaults, the four ends of
\* the documented ranges, and values just outside them
MesherArgs ==
    { Deflections(1000, 5000), Deflections(10, 1000), Deflections(10000, 10000),
      Deflections(9, 5000), Deflections(11000, 5000),
      Deflections(1000, 999), Deflections(1000, 10001) }

NoExc == [type |-> "none", msg |-> <<>>]
Exc(type, msg) == [type |-> type, msg |-> msg]
\* str(e) of an exception thrown by the kernel
KernelMsg == <<"kernel failure">>

-----------------------------------------------------------------------------
(* services.py                                                             *)

\* StepReader.read without `if shape.IsNull(): raise StepReadError`
StepReader_read_no_null_check(exists, k) ==
    IF ~exists
    THEN [ok |-> FALSE, calls |-> <<>>,
          exc |-> Exc("StepReadError", <<"STEP file does not exist">>)]
    ELSE IF k.parse = "throw"
    THEN [ok |-> FALSE, calls |-> <<"ReadFile">>,
          exc |-> Exc("StepReadError", <<"Error reading STEP file: ">> \o KernelMsg)]
    ELSE IF k.parse # "RetDone"
    THEN [ok |-> FALSE, calls |-> <<"ReadFile">>,
          exc |-> Exc("StepReadError", <<"Failed to read STEP file, status code">>)]
    ELSE IF k.roots = "throw"
    THEN [ok |-> FALSE, calls |-> <<"ReadFile", "TransferRoots">>,
          exc |-> Exc("StepReadError", <<"Error reading STEP file: ">> \o KernelMsg)]
    ELSE [ok |-> TRUE, calls |-> <<"ReadFile", "TransferRoots", "OneShape">>,
          exc |-> NoExc]

\* StepReader.read
StepReader_read(exists, k) ==
    IF ~exists
    THEN [ok |-> FALSE, calls |-> <<>>,
          exc |-> Exc("StepReadError", <<"STEP file does not exist">>)]
    ELSE IF k.parse = "throw"
    THEN [ok |-> FALSE, calls |-> <<"ReadFile">>,
          exc |-> Exc("StepReadError", <<"Error reading STEP file: ">> \o KernelMsg)]
    ELSE IF k.parse # "RetDone"
    THEN [ok |-> FALSE, calls |-> <<"ReadFile">>,
          exc |-> Exc("StepReadError", <<"Failed to read STEP file, status code">>)]
    ELSE IF k.roots = "throw"
    THEN [ok |-> FALSE, calls |-> <<"ReadFile", "TransferRoots">>,
          exc |-> Exc("StepReadError", <<"Error reading STEP file: ">> \o KernelMsg)]
    ELSE IF k.isNull
    THEN [ok |-> FALSE, calls |-> <<"ReadFile", "TransferRoots", "OneShape">>,
          exc |-> Exc("StepReadError", <<"STEP file contains no valid shapes">>)]
    ELSE [ok |-> TRUE, calls |-> <<"ReadFile", "TransferRoots", "OneShape">>,
          exc |-> NoExc]

\* ShapeMesher.mesh that takes a returning Perform() for a finished mesh
ShapeMesher_mesh_no_done_check(self, k) ==
    IF k.mesh = "throw"
    THEN [ok |-> FALSE, calls |-> <<"Perform">>, args |-> <<self>>,
          exc |-> Exc("MeshingError", <<"Error meshing shape: ">> \o KernelMsg)]
    ELSE [ok |-> TRUE, calls |-> <<"Perform">>, args |-> <<self>>, exc |-> NoExc]

\* ShapeMesher.mesh that lets an exception of the kernel pass unwrapped
ShapeMesher_mesh_raw(self, k) ==
    IF k.mesh = "throw"
    THEN [ok |-> FALSE, calls |-> <<"Perform">>, args |-> <<self>>,
          exc |-> Exc("RuntimeError", KernelMsg)]
    ELSE IF k.mesh # "done"
    THEN [ok |-> FALSE, calls |-> <<"Perform">>, args |-> <<self>>,
          exc |-> Exc("MeshingError", <<"Meshing operation failed">>)]
    ELSE [ok |-> TRUE, calls |-> <<"Perform">>, args |-> <<self>>, exc |-> NoExc]

\* ShapeMesher.mesh: BRepMesh_IncrementalMesh(shape, self.linear_deflection,
\* False, self.angular_deflection, True); `args` are the deflections passed
ShapeMesher_mesh(self, k) ==
    IF k.mesh = "throw"
    THEN [ok |-> FALSE, calls |-> <<"Perform">>, args |-> <<self>>,
          exc |-> Exc("MeshingError", <<"Error meshing shape: ">> \o KernelMsg)]
    ELSE IF k.mesh # "done"
    THEN [ok |-> FALSE, calls |-> <<"Perform">>, args |-> <<self>>,
          exc |-> Exc("MeshingError", <<"Meshing operation failed">>)]
    ELSE [ok |-> TRUE, calls |-> <<"Perform">>, args |-> <<self>>, exc |-> NoExc]

\* StlWriter.write
StlWriter_write(out, k, tag) ==
    LET after == KernelWrite(out, k, tag) IN
    IF k.wthrows
    THEN [ok |-> FALSE, out |-> after, calls |-> <<"Write">>,
          exc |-> Exc("StlWriteError", <<"Error writing STL file: ">> \o KernelMsg)]
    ELSE IF ~Exists(after)
    THEN [ok |-> FALSE, out |-> after, calls |-> <<"Write">>,
          exc |-> Exc("StlWriteError", <<"STL file was not created">>)]
    ELSE [ok |-> TRUE, out |-> after, calls |-> <<"Write">>, exc |-> NoExc]

StageErrors == {"StepReadError", "MeshingError", "StlWriteError"}

\* convert's handlers with StlWriteError missing from the first and no
\* second handler: the exception leaves convert as it is
ConvertExcept_partial(e) ==
    IF e.type \in {"StepReadError", "MeshingError"}
    THEN Exc("ConversionError", <<"Conversion failed: ">> \o e.msg)
    ELSE e

\* convert's handlers with a fixed message
ConvertExcept_generic(e) == Exc("ConversionError", <<"Conversion failed">>)

\* ConversionService.convert: except (StepReadError, MeshingError,
\* StlWriteError) / except Exception
ConvertExcept(e) ==
    IF e.type \in StageErrors
    THEN Exc("ConversionError", <<"Conversion failed: ">> \o e.msg)
    ELSE Exc("ConversionError", <<"Unexpected error during conversion: ">> \o e.msg)

\* convert with one retry of a failed read
ConvertRead_retry ==
    /\ spc = "start"
    /\ LET r == StepReader_read(cin, ck) IN
        /\ sstages' = Append(sstages, "read")
        /\ scalls' = scalls \o r.calls
        /\ IF r.ok
           THEN spc' = "read" /\ sexc' = sexc /\ scaught' = scaught
           ELSE IF sstages = <<>>
           THEN spc' = "start" /\ sexc' = sexc /\ scaught' = scaught
           ELSE spc' = "failed" /\ sexc' = ConvertExcept(r.exc) /\ scaught' = r.exc
    /\ UNCHANGED <<ck, cin, sout, lpc, lres, lout, out0, shape_mesher, smeshargs,
                   lconverter, run, first, vvars, hvars, gvars>>

\* convert that reads again, for as long as the read fails
ConvertRead_again ==
    /\ spc = "start"
    /\ LET r == StepReader_read(cin, ck) IN
        IF r.ok
        THEN /\ sstages' = Append(sstages, "read")
             /\ scalls' = scalls \o r.calls
             /\ spc' = "read" /\ sexc' = sexc /\ scaught' = scaught
        ELSE UNCHANGED <<sstages, scalls, spc, sexc, scaught>>
    /\ UNCHANGED <<ck, cin, sout, lpc, lres, lout, out0, shape_mesher, smeshargs,
                   lconverter, run, first, vvars, hvars, gvars>>

\* shape = self.step_reader.read(step_file_path)
ConvertRead ==
    /\ spc = "start"
    /\ LET r == StepReader_read(cin, ck) IN
        /\ sstages' = Append(sstages, "read")
        /\ scalls' = scalls \o r.calls
        /\ IF r.ok
           THEN spc' = "read" /\ sexc' = sexc /\ scaught' = scaught
           ELSE spc' = "failed" /\ sexc' = ConvertExcept(r.exc) /\ scaught' = r.exc
    /\ UNCHANGED <<ck, cin, sout, lpc, lres, lout, out0, shape_mesher, smeshargs,
                   lconverter, run, first, vvars, hvars, gvars>>

\* convert with a mesher that coarsens its linear deflection after a
\* meshing failure
ConvertMesh_adaptive ==
    /\ spc = "read"
    /\ LET r == ShapeMesher_mesh(shape_mesher, ck) IN
        /\ sstages' = Append(sstages, "mesh")
        /\ scalls' = scalls \o r.calls
        /\ smeshargs' = smeshargs \o r.args
        /\ IF r.ok
           THEN /\ spc' = "meshed" /\ sexc' = sexc /\ scaught' = scaught
                /\ shape_mesher' = shape_mesher
           ELSE /\ spc' = "failed" /\ sexc' = ConvertExcept(r.exc) /\ scaught' = r.exc
                /\ shape_mesher' =
                     [shape_mesher EXCEPT !.linear_deflection = 2 * @]
    /\ UNCHANGED <<ck, cin, sout, lpc, lres, lout, out0, lconverter,
                   run, first, vvars, hvars, gvars>>

\* meshed_shape = self.shape_mesher.mesh(shape)
ConvertMesh ==
    /\ spc = "read"
    /\ LET r == ShapeMesher_mesh(shape_mesher, ck) IN
        /\ sstages' = Append(sstages, "mesh")
        /\ scalls' = scalls \o r.calls
        /\ smeshargs' = smeshargs \o r.args
        /\ IF r.ok
           THEN spc' = "meshed" /\ sexc' = sexc /\ scaught' = scaught
           ELSE spc' = "failed" /\ sexc' = ConvertExcept(r.exc) /\ scaught' = r.exc
    /\ UNCHANGED <<ck, cin, sout, lpc, lres, lout, out0, shape_mesher, lconverter,
                   run, first, vvars, hvars, gvars>>

\* output_path = self.stl_writer.write(meshed_shape, stl_file_path);
\* return output_path (the file this run writes carries the tag 1)
ConvertWrite ==
    /\ spc = "meshed"
    /\ LET r == StlWriter_write(sout, ck, 1) IN
        /\ sstages' = Append(sstages, "write")
        /\ scalls' = scalls \o r.calls
        /\ sout' = r.out
        /\ IF r.ok
           THEN spc' = "succeeded" /\ sexc' = sexc /\ scaught' = scaught
           ELSE spc' = "failed" /\ sexc' = ConvertExcept(r.exc) /\ scaught' = r.exc
    /\ UNCHANGED <<ck, cin, lpc, lres, lout, out0, shape_mesher, smeshargs,
                   lconverter, run, first, vvars, hvars, gvars>>

-----------------------------------------------------------------------------
(* main.py: StepConverter                                                  *)

\* StepConverter.read_step_file: the shape, or None
read_step_file(exists, k) ==
    IF ~exists
    THEN [shape |-> "None", calls |-> <<>>]
    ELSE IF k.parse = "throw"
    THEN [shape |-> "None", calls |-> <<"ReadFile">>]
    ELSE IF k.parse # "RetDone"
    THEN [shape |-> "None", calls |-> <<"ReadFile">>]
    ELSE IF k.roots = "throw"
    THEN [shape |-> "None", calls |-> <<"ReadFile", "TransferRoots">>]
    ELSE IF k.isNull
    THEN [shape |-> "None", calls |-> <<"ReadFile", "TransferRoots", "OneShape">>]
    ELSE [shape |-> "shape", calls |-> <<"ReadFile", "TransferRoots", "OneShape">>]

\* StepConverter.mesh_shape
mesh_shape(self, k) ==
    IF k.mesh = "throw" THEN [ok |-> FALSE, calls |-> <<"Perform">>, args |-> <<self>>]
    ELSE IF k.mesh # "done" THEN [ok |-> FALSE, calls |-> <<"Perform">>, args |-> <<self>>]
    ELSE [ok |-> TRUE, calls |-> <<"Perform">>, args |-> <<self>>]

\* write_stl_file without `if not os.path.exists(stl_file_path): return False`
write_stl_file_unverified(out, k, tag) ==
    LET after == KernelWrite(out, k, tag) IN
    IF k.wthrows THEN [ok |-> FALSE, out |-> after, calls |-> <<"Write">>]
    ELSE [ok |-> TRUE, out |-> after, calls |-> <<"Write">>]

\* StepConverter.write_stl_file
write_stl_file(out, k, tag) ==
    LET after == KernelWrite(out, k, tag) IN
    IF k.wthrows THEN [ok |-> FALSE, out |-> after, calls |-> <<"Write">>]
    ELSE IF ~Exists(after) THEN [ok |-> FALSE, out |-> after, calls |-> <<"Write">>]
    ELSE [ok |-> TRUE, out |-> after, calls |-> <<"Write">>]

\* convert_step_to_stl without the return after a failed mesh_shape
convert_step_to_stl_mesh_unchecked(self, exists, out, k, tag) ==
    LET rd == read_step_file(exists, k) IN
    IF rd.shape = "None"
    THEN [success |-> FALSE, out |-> out, stages |-> <<"read">>, calls |-> rd.calls,
          meshargs |-> <<>>]
    ELSE
    LET m == mesh_shape(self, k)
        w == write_stl_file(out, k, tag) IN
    [success |-> w.ok, out |-> w.out, stages |-> <<"read", "mesh", "write">>,
     calls |-> rd.calls \o m.calls \o w.calls, meshargs |-> m.args]

\* convert_step_to_stl that creates the output file before it reads
convert_step_to_stl_output_first(self, exists, out, k, tag) ==
    LET rd == read_step_file(exists, k) IN
    IF rd.shape = "None"
    THEN [success |-> FALSE, out |-> Empty(tag), stages |-> <<"read">>,
          calls |-> rd.calls, meshargs |-> <<>>]
    ELSE
    LET m == mesh_shape(self, k) IN
    IF ~m.ok
    THEN [success |-> FALSE, out |-> Empty(tag), stages |-> <<"read", "mesh">>,
          calls |-> rd.calls \o m.calls, meshargs |-> m.args]
    ELSE
    LET w == write_stl_file(Empty(tag), k, tag) IN
    [success |-> w.ok, out |-> w.out, stages |-> <<"read", "mesh", "write">>,
     calls |-> rd.calls \o m.calls \o w.calls, meshargs |-> m.args]

\* StepConverter.convert_step_to_stl
convert_step_to_stl(self, exists, out, k, tag) ==
    LET rd == read_step_file(exists, k) IN
    IF rd.shape = "None"
    THEN [success |-> FALSE, out |-> out, stages |-> <<"read">>, calls |-> rd.calls,
          meshargs |-> <<>>]
    ELSE
    LET m == mesh_shape(self, k) IN
    IF ~m.ok
    THEN [success |-> FALSE, out |-> out, stages |-> <<"read", "mesh">>,
          calls |-> rd.calls \o m.calls, meshargs |-> m.args]
    ELSE
    LET w == write_stl_file(out, k, tag) IN
    [success |-> w.ok, out |-> w.out, stages |-> <<"read", "mesh", "write">>,
     calls |-> rd.calls \o m.calls \o w.calls, meshargs |-> m.args]

NotCalled == [success |-> FALSE, out |-> Absent, stages |-> <<>>, calls |-> <<>>,
              meshargs |-> <<>>]

\* a direct call converter.convert_step_to_stl(step_file_path, stl_file_path)
\* (the file this run writes carries the tag 1)
LegacyConvert ==
    /\ lpc = "start"
    /\ lpc' = "done"
    /\ lres' = convert_step_to_stl(lconverter, cin, lout, ck, 1)
    /\ lout' = lres'.out
    /\ UNCHANGED <<ck, cin, spc, sstages, scalls, sexc, sout, out0, scaught,
                   shape_mesher, smeshargs, lconverter, run, first, vvars, hvars, gvars>>

\* the output path before the run: nothing, an empty file, or an STL left by
\* an earlier run (tag 0)
OutBefore == {Absent, Empty(0), Full(0)}


-----------------------------------------------------------------------------
(* main.py: the HTTP endpoints                                             *)

\* converter = StepConverter(linear_deflection=0.1, angular_deflection=0.5)
converter == Deflections(1000, 5000)

\* requests, numbered in order of arrival
NumReqs == 2
Reqs == 1..NumReqs

\* the random part of a temporary file name
NumStems == 2
Stems == 1..NumStems

Endpoints == {"step-to-stl", "step-to-stl-base64"}

\* an allow-set that lets a text file through
EndpointExtensions_with_txt ==
    { <<".","s","t","e","p">>, <<".","s","t","p">>,
      <<".","i","g","e","s">>, <<".","i","g","s">>, <<".","t","x","t">> }

\* if file_ext not in ['.step', '.stp', '.iges', '.igs']
EndpointExtensions ==
    { <<".","s","t","e","p">>, <<".","s","t","p">>,
      <<".","i","g","e","s">>, <<".","i","g","s">> }

DotStl == <<".","s","t","l">>

\* tempfile.NamedTemporaryFile(delete=False, suffix=file_ext).name
TempName(stem, suffix) == <<"t", "m", "p", ToString(stem)>> \o suffix

\* Path(step_path).with_suffix('.stl')
WithSuffix(path, suffix) ==
    SubSeq(path, 1, Len(path) - Len(PathSuffix(path))) \o suffix

TmpPaths == {TempName(n, x) : n \in Stems, x \in EndpointExtensions \cup {DotStl}}

\* the filenames clients send
RequestFileNames ==
    { <<"a",".","s","t","e","p">>,
      <<"a",".","S","t","p">>,
      <<"a",".","t","x","t">> }

\* the bytes clients send: a STEP file, a file without signature, a file
\* larger than the validator's cap
UploadContents ==
    { Sig21 \o Pad(2), Pad(20), Pad(max_file_size_bytes + 1) }

\* the kernel behaviours the requests meet: a parse that fails, a null
\* shape, a mesh that does not finish, and every behaviour of Write
RequestKernel ==
    {k \in Kernel :
        /\ k.parse # "throw" /\ k.roots = "some" /\ k.mesh # "throw"
        /\ (k.parse # "RetDone" \/ k.isNull \/ k.mesh # "done")
              => (~k.wthrows /\ k.weffect = "full")
        /\ (k.parse # "RetDone") => (~k.isNull /\ k.mesh = "done")
        /\ k.isNull => k.mesh = "done"}

\* unlink failures the model lets happen in one run of the service
MaxUnlinkFailures == 1

\* the handler's locals; NoReq before the request and after its handler
NoReq == [endpoint |-> "none", filename |-> <<>>, step_path |-> <<>>,
          stl_path |-> <<>>, upload |-> <<>>, success |-> FALSE]
NoResp == [status |-> 0, detail |-> "", body |-> Absent]

\* HTTPException(status_code, detail); an exception that is no HTTPException
\* leaves the handler and is answered 500 by the server
HTTPException(status_code, detail) ==
    [status |-> status_code, detail |-> detail, body |-> Absent]
Unhandled == [status |-> 500, detail |-> "Internal Server Error", body |-> Absent]

\* the sets of paths whose os.unlink may raise in one cleanup: existing
\* files, within the budget of unlink failures
Failing(f, paths, used) ==
    {F \in SUBSET {p \in paths : Exists(f[p])} :
        Cardinality(F) <= MaxUnlinkFailures - used}

\* os.unlink(path) for the paths of `order` in turn, each in its own
\* try/except; `failing` are the paths whose unlink raises
RECURSIVE cleanup_files(_, _, _)
cleanup_files(f, order, failing) ==
    IF order = <<>> THEN f
    ELSE LET p == Head(order)
             g == IF Exists(f[p]) /\ p \notin failing
                  THEN [f EXCEPT ![p] = Absent] ELSE f
         IN  cleanup_files(g, Tail(order), failing)

\* the finally block of convert_step_to_stl_base64: both unlinks in one try
base64_cleanup(f, step_path, stl_path, failing) ==
    IF Exists(f[step_path]) /\ step_path \in failing
    THEN f
    ELSE LET g == IF Exists(f[step_path])
                  THEN [f EXCEPT ![step_path] = Absent] ELSE f
         IN  IF Exists(g[stl_path]) /\ stl_path \notin failing
             THEN [g EXCEPT ![stl_path] = Absent] ELSE g

\* One asyncio event loop runs the handlers: between two awaits a handler
\* runs alone.  A request at "converted" is inside such a stretch (the
\* converter has returned, the handler has not yet), so nothing else moves.
LoopFree == \A q \in Reqs : pc[q] # "converted"

\* The handler up to `await file.read()`: the extension check, then the
\* temporary input file is created under a name that does not exist yet.
Receive(r) ==
    /\ pc[r] = "idle"
    /\ LoopFree
    /\ \A q \in Reqs : q < r => pc[q] # "idle"
    /\ \E ep \in Endpoints, fn \in RequestFileNames :
        LET file_ext == FileExt(fn) IN
        IF file_ext \notin EndpointExtensions
        THEN /\ pc' = [pc EXCEPT ![r] = "done"]
             /\ resp' = [resp EXCEPT ![r] = HTTPException(400, "Invalid file type")]
             /\ req' = [req EXCEPT ![r] = [NoReq EXCEPT !.endpoint = ep, !.filename = fn]]
             /\ fs' = fs
        ELSE \E n \in Stems :
             LET step_path == TempName(n, file_ext) IN
             /\ ~Exists(fs[step_path])
             /\ fs' = [fs EXCEPT ![step_path] = Empty(r)]
             /\ pc' = [pc EXCEPT ![r] = "uploading"]
             /\ req' = [req EXCEPT ![r] =
                   [endpoint |-> ep, filename |-> fn, step_path |-> step_path,
                    stl_path |-> <<>>, upload |-> <<>>, success |-> FALSE]]
             /\ resp' = resp
    /\ UNCHANGED <<stages, artifact, unlinkFailures, vvars, cvars, gvars>>

\* `await file.read()` or temp_step.write raises: the with block closes the
\* file (delete=False) and the exception leaves the handler
UploadFail(r) ==
    /\ pc[r] = "uploading"
    /\ LoopFree
    /\ pc' = [pc EXCEPT ![r] = "done"]
    /\ req' = [req EXCEPT ![r] = NoReq]
    /\ resp' = [resp EXCEPT ![r] = Unhandled]
    /\ UNCHANGED <<fs, stages, artifact, unlinkFailures, vvars, cvars, gvars>>

\* Both endpoints, from the return of `await file.read()` to the return of
\* converter.convert_step_to_stl: the upload is written to the temporary
\* file, stl_path is derived, the converter runs.
Convert(r) ==
    /\ pc[r] = "uploading"
    /\ LoopFree
    /\ \E content \in UploadContents, k \in RequestKernel :
        LET step_path == req[r].step_path
            stl_path == WithSuffix(step_path, DotStl)
            fs1 == [fs EXCEPT ![step_path] = Full(r)]
            res == convert_step_to_stl(converter, Exists(fs1[step_path]),
                                       fs1[stl_path], k, r)
        IN
        /\ req' = [req EXCEPT ![r].upload = content, ![r].stl_path = stl_path,
                              ![r].success = res.success]
        /\ stages' = [stages EXCEPT ![r] = res.stages]
        /\ fs' = [fs1 EXCEPT ![stl_path] = res.out]
        /\ artifact' = [artifact EXCEPT ![r] = IF res.success THEN res.out ELSE Absent]
        /\ pc' = [pc EXCEPT ![r] = "converted"]
    /\ UNCHANGED <<resp, unlinkFailures, vvars, cvars, gvars>>

\* /convert/step-to-stl after the converter: on failure cleanup_files and
\* HTTPException(500); on success the cleanup is scheduled and the
\* FileResponse returned
FinishFile(r) ==
    /\ pc[r] = "converted"
    /\ req[r].endpoint = "step-to-stl"
    /\ IF ~req[r].success
       THEN /\ \E failing \in Failing(fs, {req[r].step_path, req[r].stl_path}, unlinkFailures) :
                /\ fs' = cleanup_files(fs, <<req[r].step_path, req[r].stl_path>>, failing)
                /\ unlinkFailures' = unlinkFailures + Cardinality(failing)
            /\ pc' = [pc EXCEPT ![r] = "done"]
            /\ resp' = [resp EXCEPT ![r] =
                  HTTPException(500, "STEP to STL conversion failed")]
            /\ req' = [req EXCEPT ![r] = NoReq]
            /\ artifact' = [artifact EXCEPT ![r] = Absent]
       ELSE /\ pc' = [pc EXCEPT ![r] = "responding"]
            /\ req' = [req EXCEPT ![r].upload = <<>>]
            /\ UNCHANGED <<fs, resp, artifact, unlinkFailures>>
    /\ stages' = [stages EXCEPT ![r] = <<>>]
    /\ UNCHANGED <<vvars, cvars, gvars>>

\* the FileResponse is sent: the file at stl_path is read now
Deliver(r) ==
    /\ pc[r] = "responding"
    /\ LoopFree
    /\ pc' = [pc EXCEPT ![r] = "background"]
    /\ resp' = [resp EXCEPT ![r] =
          IF Exists(fs[req[r].stl_path])
          THEN [status |-> 200, detail |-> "", body |-> fs[req[r].stl_path]]
          ELSE Unhandled]
    /\ UNCHANGED <<req, fs, stages, artifact, unlinkFailures, vvars, cvars, gvars>>

\* background_tasks.add_task(cleanup_files, step_path, stl_path) runs
Background(r) ==
    /\ pc[r] = "background"
    /\ LoopFree
    /\ \E failing \in Failing(fs, {req[r].step_path, req[r].stl_path}, unlinkFailures) :
          /\ fs' = cleanup_files(fs, <<req[r].step_path, req[r].stl_path>>, failing)
          /\ unlinkFailures' = unlinkFailures + Cardinality(failing)
    /\ pc' = [pc EXCEPT ![r] = "done"]
    /\ req' = [req EXCEPT ![r] = NoReq]
    /\ artifact' = [artifact EXCEPT ![r] = Absent]
    /\ UNCHANGED <<resp, stages, vvars, cvars, gvars>>

\* /convert/step-to-stl-base64 after the converter: HTTPException(500) on
\* failure, else the STL is read (`readable`: open and read succeed) and
\* encoded; the finally block removes the files in both cases
FinishBase64(r) ==
    /\ pc[r] = "converted"
    /\ req[r].endpoint = "step-to-stl-base64"
    /\ \E readable \in BOOLEAN :
        resp' = [resp EXCEPT ![r] =
              IF ~req[r].success THEN HTTPException(500, "Conversion failed")
              ELSE IF readable
              THEN [status |-> 200, detail |-> "", body |-> fs[req[r].stl_path]]
              ELSE Unhandled]
    /\ \E failing \in Failing(fs, {req[r].step_path, req[r].stl_path}, unlinkFailures) :
          /\ fs' = base64_cleanup(fs, req[r].step_path, req[r].stl_path, failing)
          /\ unlinkFailures' = unlinkFailures + Cardinality(failing)
    /\ pc' = [pc EXCEPT ![r] = "done"]
    /\ req' = [req EXCEPT ![r] = NoReq]
    /\ stages' = [stages EXCEPT ![r] = <<>>]
    /\ artifact' = [artifact EXCEPT ![r] = Absent]
    /\ UNCHANGED <<vvars, cvars, gvars>>

-----------------------------------------------------------------------------
(* Conversions one after another on the same ConversionService and the     *)
(* same StepConverter                                                      *)

\* conversions in one sequence
MaxRuns == 3

\* what a conversion is given: the kernel's behaviour on the input, whether
\* the input exists, the file at the output path
Inputs == [ck |-> ck, cin |-> cin, out0 |-> out0]

\* what a conversion yields, for both converters
Outcome ==
    [success |-> spc = "succeeded", exc |-> sexc, out |-> sout,
     meshargs |-> smeshargs,
     lsuccess |-> lres.success, lout |-> lout, lmeshargs |-> lres.meshargs]

NoFirst ==
    [set |-> FALSE,
     inputs |-> [ck |-> CHOOSE k \in Kernel : TRUE, cin |-> FALSE, out0 |-> Absent],
     outcome |-> [success |-> FALSE, exc |-> NoExc, out |-> Absent, meshargs |-> <<>>,
                  lsuccess |-> FALSE, lout |-> Absent, lmeshargs |-> <<>>],
     shape_mesher |-> converter, lconverter |-> converter]

\* Both converters have returned; the caller starts the next conversion: any
\* input, an output path that holds nothing, an earlier file, or what the
\* conversion before left there.  The converters are the same objects.
NewRun ==
    /\ run < MaxRuns
    /\ spc \in {"succeeded", "failed"}
    /\ lpc = "done"
    /\ run' = run + 1
    /\ first' = IF run = 1
                THEN [set |-> TRUE, inputs |-> Inputs, outcome |-> Outcome,
                      shape_mesher |-> shape_mesher, lconverter |-> lconverter]
                ELSE first
    /\ ck' \in RequestKernel
    /\ cin' \in BOOLEAN
    /\ sout' \in OutBefore \cup {sout}
    /\ lout' = sout'
    /\ out0' = sout'
    /\ spc' = "start"
    /\ sstages' = <<>>
    /\ scalls' = <<>>
    /\ sexc' = NoExc
    /\ scaught' = NoExc
    /\ smeshargs' = <<>>
    /\ lpc' = "start"
    /\ lres' = NotCalled
    /\ UNCHANGED <<shape_mesher, lconverter, vvars, hvars, gvars>>

-----------------------------------------------------------------------------
(* config.py: AppConfig.from_env                                           *)

\* A float: a number (in units of 0.0001), nan or inf
Num(v) == [kind |-> "num", v |-> v]
NaN == [kind |-> "nan", v |-> 0]
Inf == [kind |-> "inf", v |-> 0]

\* a <= b on floats: false when either side is nan
FloatLe(a, b) ==
    CASE a.kind = "nan" \/ b.kind = "nan" -> FALSE
      [] b.kind = "inf" -> TRUE
      [] a.kind = "inf" -> FALSE
      [] OTHER -> a.v <= b.v

\* a < b on floats
FloatLt(a, b) == FloatLe(a, b) /\ ~FloatLe(b, a)

\* lo < x < hi
DeflectionInRange_exclusive(lo, x, hi) == FloatLt(Num(lo), x) /\ FloatLt(x, Num(hi))

\* lo <= x <= hi, as in `0.001 <= linear_deflection <= 1.0`
DeflectionInRange(lo, x, hi) == FloatLe(Num(lo), x) /\ FloatLe(x, Num(hi))

\* the literals of from_env, in units of 0.0001
LINEAR_DEFLECTION_MIN == 10
LINEAR_DEFLECTION_MAX == 10000
ANGULAR_DEFLECTION_MIN == 1000
ANGULAR_DEFLECTION_MAX == 10000
LINEAR_DEFLECTION_DEFAULT == 1000
ANGULAR_DEFLECTION_DEFAULT == 5000

\* An environment variable: unset, a text float() parses (to a number, nan
\* or inf), or a text float() rejects
Unset == [set |-> FALSE, parses |-> FALSE, value |-> Num(0)]
Text(value) == [set |-> TRUE, parses |-> TRUE, value |-> value]
Garbage == [set |-> TRUE, parses |-> FALSE, value |-> Num(0)]

\* float(os.getenv(name, default))
GetFloat(var, default) ==
    IF ~var.set THEN [ok |-> TRUE, value |-> Num(default)]
    ELSE IF ~var.parses THEN [ok |-> FALSE, value |-> Num(0)]
    ELSE [ok |-> TRUE, value |-> var.value]

NoLocals == [linear_deflection |-> Num(0), angular_deflection |-> Num(0)]
NoConfig == [made |-> FALSE, linear_deflection |-> Num(0), angular_deflection |-> Num(0)]

\* from_env up to the deflection checks: int(MAX_FILE_SIZE_MB), then the two
\* float() calls; each raises ValueError on text it cannot parse
from_env_parse ==
    /\ cfgpc = "start"
    /\ LET lin == GetFloat(environ.LINEAR_DEFLECTION, LINEAR_DEFLECTION_DEFAULT)
           ang == GetFloat(environ.ANGULAR_DEFLECTION, ANGULAR_DEFLECTION_DEFAULT)
       IN  IF ~environ.size_parses \/ ~lin.ok \/ ~ang.ok
           THEN /\ cfgpc' = "raised"
                /\ cfgerr' = "parse"
                /\ cfglocals' = cfglocals
           ELSE /\ cfgpc' = "validate"
                /\ cfglocals' = [linear_deflection |-> lin.value,
                                 angular_deflection |-> ang.value]
                /\ cfgerr' = cfgerr
    /\ UNCHANGED <<environ, config, vvars, cvars, hvars>>

\* the two range checks of from_env
from_env_validate ==
    /\ cfgpc = "validate"
    /\ IF ~DeflectionInRange(LINEAR_DEFLECTION_MIN, cfglocals.linear_deflection,
                             LINEAR_DEFLECTION_MAX)
       THEN cfgpc' = "raised" /\ cfgerr' = "LINEAR_DEFLECTION"
       ELSE IF ~DeflectionInRange(ANGULAR_DEFLECTION_MIN, cfglocals.angular_deflection,
                                  ANGULAR_DEFLECTION_MAX)
       THEN cfgpc' = "raised" /\ cfgerr' = "ANGULAR_DEFLECTION"
       ELSE cfgpc' = "construct" /\ cfgerr' = cfgerr
    /\ UNCHANGED <<environ, cfglocals, config, vvars, cvars, hvars>>

\* return cls(...): int(PORT) and int(RATE_LIMIT_PER_MINUTE) may still raise
from_env_return ==
    /\ cfgpc = "construct"
    /\ IF ~environ.ints_parse
       THEN /\ cfgpc' = "raised"
            /\ cfgerr' = "parse"
            /\ config' = config
       ELSE /\ cfgpc' = "returned"
            /\ config' = [made |-> TRUE,
                          linear_deflection |-> cfglocals.linear_deflection,
                          angular_deflection |-> cfglocals.angular_deflection]
            /\ cfgerr' = cfgerr
    /\ UNCHANGED <<environ, cfglocals, vvars, cvars, hvars>>

\* the values LINEAR_DEFLECTION and ANGULAR_DEFLECTION are set to
LinearSettings ==
    {Unset, Garbage, Text(NaN), Text(Inf)} \cup
    {Text(Num(v)) : v \in {-10, 0, 9, 10, 11, 1000, 9999, 10000, 10001, 11000}}

AngularSettings ==
    {Unset, Garbage, Text(NaN)} \cup
    {Text(Num(v)) : v \in {0, 999, 1000, 5000, 10000, 10001}}

Environments ==
    [LINEAR_DEFLECTION : LinearSettings, ANGULAR_DEFLECTION : AngularSettings,
     size_parses : BOOLEAN, ints_parse : BOOLEAN]

-----------------------------------------------------------------------------
(* Specifications                                                          *)

InitCfgIdle ==
    /\ environ = [LINEAR_DEFLECTION |-> Unset, ANGULAR_DEFLECTION |-> Unset,
                  size_parses |-> TRUE, ints_parse |-> TRUE]
    /\ cfgpc = "start"
    /\ cfglocals = NoLocals
    /\ config = NoConfig
    /\ cfgerr = "none"


InitValidatorIdle ==
    /\ vfilename = <<>>
    /\ vfile = [mode |-> "missing", content |-> <<>>]
    /\ vpc = "extension"
    /\ vext = <<>>
    /\ vtrace = <<>>
    /\ vresult = NoResult

InitConvIdle ==
    /\ spc = "start"
    /\ sstages = <<>>
    /\ scalls = <<>>
    /\ sexc = NoExc
    /\ scaught = NoExc
    /\ smeshargs = <<>>
    /\ lpc = "start"
    /\ lres = NotCalled
    /\ run = 1
    /\ first = NoFirst

InitHttpIdle ==
    /\ pc = [r \in Reqs |-> "idle"]
    /\ req = [r \in Reqs |-> NoReq]
    /\ fs = [p \in TmpPaths |-> Absent]
    /\ resp = [r \in Reqs |-> NoResp]
    /\ stages = [r \in Reqs |-> <<>>]
    /\ artifact = [r \in Reqs |-> Absent]
    /\ unlinkFailures = 0

InitV ==
    /\ vfilename \in FileNames
    /\ vfile \in Files
    /\ vpc = "extension"
    /\ vext = <<>>
    /\ vtrace = <<>>
    /\ vresult = NoResult
    /\ ck = CHOOSE k \in Kernel : TRUE
    /\ cin = FALSE
    /\ sout = Absent
    /\ lout = Absent
    /\ out0 = Absent
    /\ shape_mesher = converter
    /\ lconverter = converter
    /\ InitConvIdle
    /\ InitHttpIdle
    /\ InitCfgIdle

NextV ==
    \/ validate_file_extension
    \/ validate_file_size
    \/ validate_magic_number
    \/ validate_file

SpecV == InitV /\ [][NextV]_vars

InitConv ==
    /\ ck \in Kernel
    /\ cin \in BOOLEAN
    /\ sout \in OutBefore
    /\ lout = sout
    /\ out0 = sout
    /\ shape_mesher \in MesherArgs
    /\ lconverter = shape_mesher
    /\ InitConvIdle
    /\ InitValidatorIdle
    /\ InitHttpIdle
    /\ InitCfgIdle

NextConv ==
    \/ ConvertRead
    \/ ConvertMesh
    \/ ConvertWrite
    \/ LegacyConvert

SpecConv == InitConv /\ [][NextConv]_vars

\* convert and convert_step_to_stl are synchronous functions: when every
\* kernel call returns or throws, each statement completes and control
\* reaches the next one, so no enabled step of a run waits for ever
SpecConvLive ==
    /\ InitConv /\ [][NextConv]_vars
    /\ WF_vars(ConvertRead) /\ WF_vars(ConvertMesh) /\ WF_vars(ConvertWrite)
    /\ WF_vars(LegacyConvert)

Init ==
    /\ InitHttpIdle
    /\ InitValidatorIdle
    /\ ck = CHOOSE k \in Kernel : TRUE
    /\ cin = FALSE
    /\ sout = Absent
    /\ lout = Absent
    /\ out0 = Absent
    /\ shape_mesher = converter
    /\ lconverter = converter
    /\ InitConvIdle
    /\ InitCfgIdle

Next ==
    \E r \in Reqs :
        \/ Receive(r)
        \/ UploadFail(r)
        \/ Convert(r)
        \/ FinishFile(r)
        \/ Deliver(r)
        \/ Background(r)
        \/ FinishBase64(r)

Spec == Init /\ [][Next]_vars

InitSeq ==
    /\ ck \in RequestKernel
    /\ cin \in BOOLEAN
    /\ sout \in OutBefore
    /\ lout = sout
    /\ out0 = sout
    /\ shape_mesher \in {converter, Deflections(10, 1000)}
    /\ lconverter = shape_mesher
    /\ InitConvIdle
    /\ InitValidatorIdle
    /\ InitHttpIdle
    /\ InitCfgIdle

NextSeq ==
    \/ ConvertRead
    \/ ConvertMesh
    \/ ConvertWrite
    \/ LegacyConvert
    \/ NewRun

SpecSeq == InitSeq /\ [][NextSeq]_vars

InitCfg ==
    /\ environ \in Environments
    /\ cfgpc = "start"
    /\ cfglocals = NoLocals
    /\ config = NoConfig
    /\ cfgerr = "none"
    /\ InitValidatorIdle
    /\ InitHttpIdle
    /\ ck = CHOOSE k \in Kernel : TRUE
    /\ cin = FALSE
    /\ sout = Absent
    /\ lout = Absent
    /\ out0 = Absent
    /\ shape_mesher = converter
    /\ lconverter = converter
    /\ InitConvIdle

NextCfg ==
    \/ from_env_parse
    \/ from_env_validate
    \/ from_env_return

SpecCfg == InitCfg /\ [][NextCfg]_vars

-----------------------------------------------------------------------------
(* Properties of FileValidator                                             *)

VFinished == vpc \in {"raised", "returned"}

VExtAllowed == Lower(PathSuffix(vfilename)) \in ALLOWED_EXTENSIONS

VTooBig == vfile.mode # "missing" /\ Len(vfile.content) > max_file_size_bytes

\* a signature lies entirely inside bytes 1..512 of the content
VSignatureInHeader ==
    \E sig \in {Sig21, Sig28} : \E o \in 0..(HeaderBytes - SigLen) :
        /\ o + SigLen <= Len(vfile.content)
        /\ \A i \in 1..SigLen : vfile.content[o + i] = sig[i]

IsPrefix(s, t) == Len(s) <= Len(t) /\ s = SubSeq(t, 1, Len(s))

\* C8: validate_file runs its checks in the order extension, size, content
\* and stops at the first one that fails: a rejected extension raises
\* InvalidFileTypeError with neither size nor content examined, also when
\* the file is too big; an allowed extension with a file over the cap raises
\* FileSizeExceededError with the content not examined, also when the
\* signature is missing; a return means all three checks ran.
C8_ValidationOrder ==
    /\ IsPrefix(vtrace, <<"extension", "size", "content">>)
    /\ VFinished =>
        /\ ~VExtAllowed =>
              vresult = Raised("InvalidFileTypeError") /\ vtrace = <<"extension">>
        /\ VExtAllowed /\ VTooBig =>
              vresult = Raised("FileSizeExceededError")
              /\ vtrace = <<"extension", "size">>
        /\ vresult.status = "returned" =>
              vtrace = <<"extension", "size", "content">>

\* an allowed extension, over the cap, no signature: FileSizeExceededError
C8_Witness ==
    /\ vpc = "raised"
    /\ VExtAllowed /\ VTooBig /\ vfile.mode = "ok" /\ ~VSignatureInHeader
    /\ vresult.kind = "FileSizeExceededError"
    /\ vtrace = <<"extension", "size">>

\* C9: a filename whose lowercased suffix is outside the allow-set (or that
\* has no suffix) fails with InvalidFileTypeError whatever the file's size or
\* content; a suffix that matches the allow-set case-insensitively passes the
\* extension check, which yields the lowercase extension.
C9_ExtensionCheck ==
    vtrace # <<>> =>
        LET suffix == PathSuffix(vfilename) IN
        IF \E e \in ALLOWED_EXTENSIONS :
              /\ Len(e) = Len(suffix)
              /\ \A i \in 1..Len(e) : LowerChar(suffix[i]) = e[i]
        THEN /\ vext \in ALLOWED_EXTENSIONS
             /\ Len(vext) = Len(suffix)
             /\ \A i \in 1..Len(vext) : vext[i] = LowerChar(suffix[i])
             /\ ~(vtrace = <<"extension">> /\ vpc = "raised")
             /\ vresult.status = "returned" => vresult.ext = vext
        ELSE /\ vpc = "raised"
             /\ vresult = Raised("InvalidFileTypeError")

\* a.STEP is accepted and reported as .step
C9_Witness ==
    /\ vfilename = <<"a", ".", "S", "T", "E", "P">>
    /\ vpc = "returned"
    /\ vresult.ext = <<".", "s", "t", "e", "p">>

\* C10: for a file that can be read, has an allowed extension (any of the
\* four) and is no larger than the cap, validate_file returns exactly when
\* ISO-10303-21; or ISO-10303-28; lies entirely inside the first 512 bytes,
\* and raises InvalidFileTypeError otherwise.
C10_SignatureWindow ==
    (VFinished /\ VExtAllowed /\ vfile.mode = "ok" /\ ~VTooBig) =>
        IF VSignatureInHeader
        THEN vresult = Returned(Lower(PathSuffix(vfilename)), Len(vfile.content))
        ELSE vresult = Raised("InvalidFileTypeError")

\* an .igs file whose signature straddles byte 512 is rejected
C10_Witness ==
    /\ vpc = "raised"
    /\ Lower(PathSuffix(vfilename)) = <<".", "i", "g", "s">>
    /\ vfile.mode = "ok"
    /\ vfile.content = Pad(HeaderBytes - SigLen + 1) \o Sig21 \o Pad(2)
    /\ vresult = Raised("InvalidFileTypeError")

\* C11: for a file with an allowed extension that exists at file_path, the
\* size check raises FileSizeExceededError exactly when the byte length is
\* greater than max_file_size_bytes, whatever the content: a file of exactly
\* max_file_size_bytes goes on to the content check, a file of one byte more
\* ends validation at the size check.
C11_SizeBoundary ==
    (Len(vtrace) >= 2 /\ vfile.mode # "missing") =>
        /\ (vresult.kind = "FileSizeExceededError") <=>
              (Len(vfile.content) > max_file_size_bytes)
        /\ Len(vfile.content) > max_file_size_bytes =>
              (vpc = "raised" /\ vtrace = <<"extension", "size">>)
        /\ Len(vfile.content) <= max_file_size_bytes =>
              vpc \in {"magic", "return", "returned", "raised"}
        /\ (Len(vfile.content) <= max_file_size_bytes /\ vpc = "raised") =>
              (vtrace = <<"extension", "size", "content">>
               /\ vresult.kind = "InvalidFileTypeError")

\* a file of exactly max_file_size_bytes bytes with a signature is accepted
C11_Witness ==
    /\ vpc = "returned"
    /\ Len(vfile.content) = max_file_size_bytes
    /\ vresult.size = max_file_size_bytes

\* C21: whenever validate_file fails it raises InvalidFileTypeError or
\* FileSizeExceededError and no other exception, also when no file exists at
\* file_path or the file cannot be read; when it succeeds it returns the
\* lowercase extension and the byte length of the file.
C21_OnlyValidationErrors ==
    /\ vpc = "raised" =>
          vresult.kind \in {"InvalidFileTypeError", "FileSizeExceededError"}
    /\ vpc = "returned" =>
          vresult = Returned(Lower(PathSuffix(vfilename)), Len(vfile.content))

-----------------------------------------------------------------------------
(* Properties of the conversion pipeline (SpecConv)                        *)

AllStages == <<"read", "mesh", "write">>

\* the kernel behaviour under which each stage succeeds
ReadOk == cin /\ ck.parse = "RetDone" /\ ck.roots # "throw" /\ ~ck.isNull
MeshOk == ck.mesh = "done"
WriteOk(out) == ~ck.wthrows /\ Exists(out)

SvcFinished == spc \in {"succeeded", "failed"}

\* the stages invoked are an initial part of read, mesh, write; a stage is
\* invoked only when the one before it succeeded; a finished run either
\* succeeded after all three or failed at the last stage it invoked
OrderOk(st, out, finished, success) ==
    /\ IsPrefix(st, AllStages)
    /\ Len(st) >= 2 => ReadOk
    /\ Len(st) >= 3 => MeshOk
    /\ (finished /\ success) => (st = AllStages /\ ReadOk /\ MeshOk /\ WriteOk(out))
    /\ (finished /\ ~success) =>
          \/ Len(st) = 1 /\ ~ReadOk
          \/ Len(st) = 2 /\ ~MeshOk
          \/ Len(st) = 3 /\ ~WriteOk(out)

\* C2: a conversion goes read, mesh, write, succeeded in that order: mesh
\* starts only after read returned a model, write only after mesh reported
\* completion, and the first stage that fails ends the run as failed with no
\* later stage invoked; for ConversionService.convert and for
\* StepConverter.convert_step_to_stl.
C2_StageOrder ==
    /\ OrderOk(sstages, sout, SvcFinished, spc = "succeeded")
    /\ spc = "start" => sstages = <<>>
    /\ spc = "read" => sstages = <<"read">>
    /\ spc = "meshed" => sstages = <<"read", "mesh">>
    /\ (sstages = <<"read">> /\ ~ReadOk) => spc = "failed"
    /\ (sstages = <<"read", "mesh">> /\ ~MeshOk) => spc = "failed"
    /\ lpc = "start" => lres.stages = <<>>
    /\ lpc = "done" => OrderOk(lres.stages, lout, TRUE, lres.success)

\* both pipelines stopped at a mesh that did not complete
C2_Witness ==
    /\ ReadOk /\ ~MeshOk
    /\ spc = "failed" /\ sstages = <<"read", "mesh">>
    /\ lpc = "done" /\ ~lres.success /\ lres.stages = <<"read", "mesh">>

\* C3: a run of ConversionService.convert that fails raises ConversionError,
\* whichever stage failed and whether the kernel returned a bad status or
\* threw; no stage error and no kernel exception leaves convert.
C3_OnlyConversionError ==
    /\ spc = "failed" => sexc.type = "ConversionError"
    /\ spc # "failed" => sexc = NoExc
    /\ (SvcFinished /\ ~(ReadOk /\ MeshOk /\ WriteOk(sout))) => spc = "failed"

\* the write stage failed after read and mesh succeeded
C3_Witness ==
    /\ spc = "failed"
    /\ sstages = AllStages
    /\ ck.wthrows
    /\ sexc.type = "ConversionError"

\* C4: a pipeline reports success only if the parse status was done, the
\* shape was not null, the mesher's done flag was true and the STL file
\* exists after the write call; with any other kernel behaviour a finished
\* run has failed.
C4_SuccessOnlyWhenConfirmed ==
    LET confirmed(out) ==
            /\ ck.parse = "RetDone" /\ ~ck.isNull
            /\ ck.mesh = "done"
            /\ Exists(out)
    IN  /\ spc = "succeeded" => confirmed(sout)
        /\ (SvcFinished /\ ~confirmed(sout)) => spc = "failed"
        /\ (lpc = "done" /\ lres.success) => confirmed(lout)
        /\ (lpc = "done" /\ ~confirmed(lout)) => ~lres.success

\* both pipelines succeeded
C4_Witness ==
    /\ spc = "succeeded"
    /\ lpc = "done" /\ lres.success
    /\ ck.parse = "RetDone" /\ ~ck.isNull /\ ck.mesh = "done"
    /\ Exists(sout) /\ Exists(lout)

\* the service run ended in its read stage / got past it
ReadRaised == sstages = <<"read">> /\ spc = "failed"
ReadReturned == sstages # <<>> /\ ~ReadRaised

\* C12: StepReader.read either returns a shape that is not null or raises
\* StepReadError.  It raises StepReadError, without calling the kernel, when
\* the input file is missing; it raises StepReadError when ReadFile returns a
\* status other than IFSelect_RetDone, when the shape is null, and when the
\* kernel throws; in every other case it returns, whether TransferRoots
\* transferred roots or none.
C12_ReadAtomic ==
    sstages # <<>> =>
        /\ ReadReturned =>
              (cin /\ ck.parse = "RetDone" /\ ~ck.isNull /\ scaught.type # "StepReadError")
        /\ ReadRaised => scaught.type = "StepReadError"
        /\ ~cin => (ReadRaised /\ scalls = <<>>)
        /\ ck.parse # "RetDone" => ReadRaised
        /\ ck.isNull => ReadRaised
        /\ (cin /\ ck.parse = "RetDone" /\ ck.roots = "throw") => ReadRaised
        /\ (cin /\ ck.parse = "RetDone" /\ ck.roots # "throw" /\ ~ck.isNull) =>
              ReadReturned

\* the file parsed, roots were transferred, and the shape is null
C12_Witness ==
    /\ cin /\ ck.parse = "RetDone" /\ ck.roots = "some" /\ ck.isNull
    /\ ReadRaised
    /\ scaught = Exc("StepReadError", <<"STEP file contains no valid shapes">>)

\* the service run ended in its mesh stage / got past it
MeshRaised == sstages = <<"read", "mesh">> /\ spc = "failed"
MeshReturned == Len(sstages) >= 2 /\ ~MeshRaised

\* C13: ShapeMesher.mesh returns only if IsDone() is true after Perform();
\* when Perform() returns with IsDone() false, or the kernel throws, mesh
\* raises MeshingError and nothing else.
C13_MeshDoneFlag ==
    Len(sstages) >= 2 =>
        /\ MeshReturned => (ck.mesh = "done" /\ scaught.type # "MeshingError")
        /\ MeshRaised => scaught.type = "MeshingError"
        /\ ck.mesh # "done" => MeshRaised
        /\ ck.mesh = "done" => MeshReturned

\* Perform() returned, IsDone() is false
C13_Witness ==
    /\ ck.mesh = "notdone"
    /\ MeshRaised
    /\ scaught = Exc("MeshingError", <<"Meshing operation failed">>)

\* the service run ended in its write stage
WriteRaised == sstages = AllStages /\ spc = "failed"

\* StlWriter.write returns only if the file exists after Write; a Write that
\* throws, or returns leaving no file, ends as StlWriteError at the writer
\* and ConversionError at convert
WriterContract ==
    /\ spc = "succeeded" => (sstages = AllStages /\ ~ck.wthrows /\ Exists(sout))
    /\ (sstages = AllStages /\ (ck.wthrows \/ ~Exists(sout))) => WriteRaised
    /\ WriteRaised => (scaught.type = "StlWriteError" /\ sexc.type = "ConversionError")

\* C14: StlWriter.write returns the output path only if the file exists
\* after the kernel's Write; a Write that throws, or that returns without
\* error leaving no file, raises StlWriteError.  And a run whose read and
\* mesh succeeded but whose Write could not write the output location
\* (it left the location as it was) ends in failure: StlWriteError at the
\* writer, ConversionError at convert.
C14_WriteFailureSurfaces ==
    /\ WriterContract
    /\ (sstages = AllStages /\ ck.weffect = "none") => WriteRaised

\* C15: a conversion that fails in its read stage or in its mesh stage never
\* invokes the write stage and leaves the output location as it was before
\* the run: if no STL file was there before, none is there after; for
\* ConversionService.convert and for StepConverter.convert_step_to_stl.
C15_FailedRunLeavesOutput ==
    /\ "write" \notin {sstages[i] : i \in 1..Len(sstages)} =>
          (sout = out0 /\ "Write" \notin {scalls[i] : i \in 1..Len(scalls)})
    /\ (ReadRaised \/ MeshRaised) =>
          (sout = out0 /\ (~Exists(out0) => ~Exists(sout)))
    /\ (lpc = "done" /\ ~(ReadOk /\ MeshOk)) =>
          /\ ~lres.success
          /\ "write" \notin {lres.stages[i] : i \in 1..Len(lres.stages)}
          /\ "Write" \notin {lres.calls[i] : i \in 1..Len(lres.calls)}
          /\ lout = out0
          /\ ~Exists(out0) => ~Exists(lout)

\* a file that parses to a null shape, no STL at the output path before:
\* both pipelines failed and left no file, although Write would have
\* produced one
C15_Witness ==
    /\ cin /\ ck.parse = "RetDone" /\ ck.isNull /\ ck.weffect = "full"
    /\ out0 = Absent
    /\ ReadRaised /\ sexc.type = "ConversionError" /\ sout = Absent
    /\ lpc = "done" /\ ~lres.success /\ lout = Absent

\* linearDeflection in [0.001, 1.0] and angularDeflection in [0.1, 1.0]
ToleranceInRange(t) ==
    /\ 10 <= t.linear_deflection /\ t.linear_deflection <= 10000
    /\ 1000 <= t.angular_deflection /\ t.angular_deflection <= 10000

\* C17: every call of BRepMesh_IncrementalMesh is made with a linear
\* deflection in [0.001, 1.0] and an angular deflection in [0.1, 1.0],
\* whatever arguments the ShapeMesher or the StepConverter was constructed
\* with: a mesher holding an out-of-range value never reaches a meshing call.
C17_TessellationTolerance ==
    /\ \A i \in 1..Len(smeshargs) : ToleranceInRange(smeshargs[i])
    /\ \A i \in 1..Len(lres.meshargs) : ToleranceInRange(lres.meshargs[i])

\* how often x occurs in the sequence s
Count(s, x) == Cardinality({i \in 1..Len(s) : s[i] = x})

\* C18: within one conversion each stage, and each of the kernel's ReadFile,
\* Perform and Write, is invoked at most once; a stage that failed is not
\* invoked again, and a run in which a stage failed never ends in success.
C18_NoRetryNoSwallow ==
    /\ \A st \in {"read", "mesh", "write"} :
          Count(sstages, st) <= 1 /\ Count(lres.stages, st) <= 1
    /\ \A c \in {"ReadFile", "TransferRoots", "OneShape", "Perform", "Write"} :
          Count(scalls, c) <= 1 /\ Count(lres.calls, c) <= 1
    /\ scaught # NoExc => spc = "failed"
    /\ (Len(sstages) >= 1 /\ ~ReadOk) => (spc = "failed" /\ sstages = <<"read">>)
    /\ (Len(sstages) >= 2 /\ ~MeshOk) => (spc = "failed" /\ sstages = <<"read", "mesh">>)
    /\ (Len(sstages) >= 3 /\ ~WriteOk(sout)) => spc = "failed"
    /\ (lpc = "done" /\ ~(ReadOk /\ MeshOk /\ WriteOk(lout))) => ~lres.success

\* the mesh stage failed: one parse, one tessellation, no write, no success
C18_Witness ==
    /\ ReadOk /\ ~MeshOk
    /\ spc = "failed"
    /\ scalls = <<"ReadFile", "TransferRoots", "OneShape", "Perform">>
    /\ lpc = "done" /\ ~lres.success
    /\ lres.calls = <<"ReadFile", "TransferRoots", "OneShape", "Perform">>

ReadMessages ==
    {StepReader_read(x, k).exc.msg : x \in BOOLEAN, k \in Kernel} \ {<<>>}
MeshMessages ==
    {ShapeMesher_mesh(converter, k).exc.msg : k \in Kernel} \ {<<>>}
WriteMessages ==
    {StlWriter_write(o, k, 1).exc.msg : o \in OutBefore, k \in Kernel} \ {<<>>}

\* C20: the ConversionError convert raises carries the message of the stage
\* error that caused it: its message is "Conversion failed: " followed by
\* the message of the StepReadError, MeshingError or StlWriteError, and the
\* messages of different stages differ, so the stage that failed can be told
\* from the message.
C20_StageDetailPreserved ==
    /\ ReadMessages \cap MeshMessages = {}
    /\ ReadMessages \cap WriteMessages = {}
    /\ MeshMessages \cap WriteMessages = {}
    /\ spc = "failed" =>
          /\ sexc.type = "ConversionError"
          /\ scaught.type \in StageErrors
          /\ scaught.msg # <<>>
          /\ Contains(sexc.msg, scaught.msg)
          /\ sexc.msg = <<"Conversion failed: ">> \o scaught.msg
          /\ ReadRaised => (scaught.type = "StepReadError" /\ scaught.msg \in ReadMessages)
          /\ MeshRaised => (scaught.type = "MeshingError" /\ scaught.msg \in MeshMessages)
          /\ WriteRaised => (scaught.type = "StlWriteError" /\ scaught.msg \in WriteMessages)

\* the kernel threw while meshing: the ConversionError says so
C20_Witness ==
    /\ MeshRaised
    /\ ck.mesh = "throw"
    /\ sexc = Exc("ConversionError",
                  <<"Conversion failed: ", "Error meshing shape: ", "kernel failure">>)

\* C24: StepConverter.convert_step_to_stl and ConversionService.convert,
\* given the same input, kernel behaviour, output path and deflections, end
\* alike: the converter returns True exactly when the service returns the
\* output path, False exactly when the service raises ConversionError, and
\* both make the same kernel calls in the same order, with the same
\* deflections, and leave the same file at the output path.
C24_LegacyEquivalent ==
    (spc \in {"succeeded", "failed"} /\ lpc = "done") =>
        /\ lres.success <=> (spc = "succeeded")
        /\ ~lres.success <=> (spc = "failed" /\ sexc.type = "ConversionError")
        /\ lres.calls = scalls
        /\ lres.stages = sstages
        /\ lres.meshargs = smeshargs
        /\ lout = sout

\* Write returned and left no file: the converter returned False, the
\* service raised ConversionError, after the same five kernel calls
C24_Witness ==
    /\ spc = "failed" /\ lpc = "done"
    /\ ~ck.wthrows /\ ck.weffect = "none" /\ out0 = Absent
    /\ ~lres.success
    /\ sexc.type = "ConversionError"
    /\ scalls = <<"ReadFile", "TransferRoots", "OneShape", "Perform", "Write">>
    /\ lres.calls = scalls

\* the terminal states of a run of ConversionService.convert: the output
\* path was returned, or ConversionError was raised
Succeeded == spc = "succeeded" /\ sexc = NoExc
Failed == spc = "failed" /\ sexc.type = "ConversionError"

\* C26: when every kernel call returns or throws, a conversion run reaches
\* a terminal state, Succeeded or Failed and never both, and a run that is
\* terminal stays in that state.
C26_RunTerminates ==
    /\ <>(Succeeded \/ Failed)
    /\ [](~(Succeeded /\ Failed))
    /\ [](Succeeded => []Succeeded)
    /\ [](Failed => []Failed)

\* a run that read the file and failed while meshing
C26_Witness ==
    /\ Failed
    /\ sstages = <<"read", "mesh">>
    /\ scaught.type = "MeshingError"

\* C5: whenever a pipeline reports success the STL file at the output path
\* exists and is not empty.
C5_SuccessArtifactNonEmpty ==
    /\ spc = "succeeded" => sout.st = "full"
    /\ (lpc = "done" /\ lres.success) => lout.st = "full"

-----------------------------------------------------------------------------
(* Properties of the HTTP service (Spec)                                   *)

\* the three checks of FileValidator.validate_file on a request's upload
PassesValidation(filename, content) ==
    /\ FileExt(filename) \in ALLOWED_EXTENSIONS
    /\ Len(content) <= max_file_size_bytes
    /\ IsValidHeader(ReadHeader(content))

\* C1: no geometry stage is started for a request whose upload has not
\* passed the extension, size and signature checks.
C1_ValidatedBeforeGeometry ==
    \A r \in Reqs :
        stages[r] # <<>> => PassesValidation(req[r].filename, req[r].upload)

\* C6: once a request is finished (its background task included) no
\* temporary file of that request is left on disk.
C6_TempFilesRemoved ==
    \A r \in Reqs :
        pc[r] = "done" => \A p \in TmpPaths : ~(Exists(fs[p]) /\ fs[p].by = r)

\* C22: on the success path of /convert/step-to-stl the STL stays on disk
\* until the response has been sent: from the converter's success to the
\* delivery of the body the file exists at the path given to FileResponse,
\* so what is delivered is a 200 with that file; only the background task,
\* which runs after the delivery, removes it.
C22_ArtifactUntilDelivered ==
    \A r \in Reqs :
        /\ pc[r] = "responding" => Exists(fs[req[r].stl_path])
        /\ pc[r] = "background" => (resp[r].status = 200 /\ Exists(resp[r].body))

\* request r removes its temporary files in this step: the failure path of
\* /convert/step-to-stl, the finally block of the base64 endpoint, or the
\* background task
CleanupStep(r) ==
    /\ pc[r] \in {"converted", "background"}
    /\ pc'[r] = "done"

\* the temporary files of r that were on disk before the step and still are
Survivors(r) ==
    {p \in {req[r].step_path, req[r].stl_path} : Exists(fs[p]) /\ Exists(fs'[p])}

\* C23: in both endpoints the two temporary files are removed independently:
\* each file that is on disk when the cleanup starts is gone after it unless
\* its own unlink failed, so a failure to delete the input file does not
\* keep the STL file on disk; and the cleanup does not change the answer:
\* a failed conversion is answered 500 whatever the cleanup did, and the
\* background task leaves the response as it is.
C23_CleanupIndependent ==
    [][\A r \in Reqs :
          CleanupStep(r) =>
              /\ Cardinality(Survivors(r)) = unlinkFailures' - unlinkFailures
              /\ ~req[r].success => resp'[r].status = 500
              /\ pc[r] = "background" => resp'[r] = resp[r]]_vars

\* the suffixes the endpoints document: .step, .stp, .iges, .igs
AllowSet ==
    { <<".","s","t","e","p">>, <<".","s","t","p">>,
      <<".","i","g","e","s">>, <<".","i","g","s">> }

\* the handler of r starts in this step
Arrives(r) == pc[r] = "idle" /\ pc'[r] # "idle"

\* the handler of r leaves the converter's failure behind in this step
AnswersFailure(r) == pc[r] = "converted" /\ ~req[r].success /\ pc'[r] # "converted"

\* C25: in both endpoints a request whose filename has a suffix (lowercased)
\* outside the allow-set is answered 400 at once, no temporary file is
\* created and the pipeline is not invoked (disk, stages and artifacts are
\* as before); a request with an allowed suffix is not rejected; and when
\* the converter reports failure the answer is 500 without a body, never a
\* 200.
C25_RejectOrFail ==
    [][\A r \in Reqs :
          /\ Arrives(r) =>
                IF Lower(PathSuffix(req'[r].filename)) \notin AllowSet
                THEN /\ resp'[r].status = 400 /\ resp'[r].body = Absent
                     /\ pc'[r] = "done"
                     /\ fs' = fs /\ stages' = stages /\ artifact' = artifact
                ELSE /\ resp'[r] = NoResp
                     /\ pc'[r] = "uploading"
          /\ AnswersFailure(r) =>
                /\ pc'[r] = "done"
                /\ resp'[r].status = 500
                /\ resp'[r].body = Absent]_vars

\* one request was rejected for its suffix and another one, of the base64
\* endpoint, was answered after its conversion failed
C25_Witness ==
    \E r, q \in Reqs :
        /\ pc[r] = "done" /\ resp[r].status = 400
        /\ req[r].filename = <<"a",".","t","x","t">>
        /\ pc[q] = "done" /\ resp[q] = HTTPException(500, "Conversion failed")

\* C7: requests in flight do not touch each other's files: while the
\* response of a request is pending, the file at its stl_path is the
\* artifact its own conversion left there.
C7_ArtifactUntouched ==
    \A r \in Reqs :
        pc[r] = "responding" => fs[req[r].stl_path] = artifact[r]

-----------------------------------------------------------------------------
(* Properties of AppConfig.from_env (SpecCfg)                              *)

\* what float() makes of the two settings
LinearGiven ==
    IF environ.LINEAR_DEFLECTION.set THEN environ.LINEAR_DEFLECTION.value ELSE Num(1000)
AngularGiven ==
    IF environ.ANGULAR_DEFLECTION.set THEN environ.ANGULAR_DEFLECTION.value ELSE Num(5000)

\* every text from_env parses can be parsed
EnvParses ==
    /\ environ.size_parses /\ environ.ints_parse
    /\ environ.LINEAR_DEFLECTION.set => environ.LINEAR_DEFLECTION.parses
    /\ environ.ANGULAR_DEFLECTION.set => environ.ANGULAR_DEFLECTION.parses

LinearAccepted == LinearGiven.kind = "num" /\ 10 <= LinearGiven.v /\ LinearGiven.v <= 10000
AngularAccepted == AngularGiven.kind = "num" /\ 1000 <= AngularGiven.v /\ AngularGiven.v <= 10000

CfgFinished == cfgpc \in {"returned", "raised"}

\* C16: from_env accepts a linear deflection exactly when it is within
\* [0.001, 1.0] and an angular deflection exactly when it is within
\* [0.1, 1.0], both ends included: with every setting parseable, from_env
\* returns an AppConfig (holding the two values) when both are in range, and
\* otherwise raises ValueError about the first setting out of range and
\* makes no AppConfig.
C16_DeflectionRanges ==
    /\ config.made =>
          /\ cfgpc = "returned"
          /\ LinearAccepted /\ AngularAccepted
          /\ config.linear_deflection = LinearGiven
          /\ config.angular_deflection = AngularGiven
    /\ cfgpc = "raised" => ~config.made
    /\ cfgpc = "returned" => config.made
    /\ (CfgFinished /\ EnvParses) =>
          /\ (LinearAccepted /\ AngularAccepted) => cfgpc = "returned"
          /\ ~LinearAccepted => (cfgpc = "raised" /\ cfgerr = "LINEAR_DEFLECTION")
          /\ (LinearAccepted /\ ~AngularAccepted) =>
                (cfgpc = "raised" /\ cfgerr = "ANGULAR_DEFLECTION")

\* LINEAR_DEFLECTION=0.001 and ANGULAR_DEFLECTION=1.0 are accepted
C16_Witness ==
    /\ environ.LINEAR_DEFLECTION = Text(Num(10))
    /\ environ.ANGULAR_DEFLECTION = Text(Num(10000))
    /\ cfgpc = "returned"
    /\ config.made
    /\ config.linear_deflection = Num(10)

====
